---- MODULE Spec2Model ----
(***************************************************************************)
(* Model of the MCQ converter (src/app.py): the POST handler index(), the  *)
(* chunk splitter split_text_by_pattern, the grouper preprocess_mcq_lines  *)
(* and the extractor loop of convert_text_to_word.                         *)
(*                                                                         *)
(* A text line is a sequence of one-character strings.  Python indices are *)
(* kept 0-based as VALUES (line_index, table_index, correct_index); the    *)
(* element of a Python list l at index k is l[k + 1] here.                 *)
(***************************************************************************)
EXTENDS Integers, Sequences, FiniteSets, TLC

\* ---------------------------------------------------------------- bounds
MaxLines == 3
MaxSlots == 2

\* ------------------------------------------------------------ characters
NL == "\n"
Upper == {"A","B","C","D","E","F","G","H","I","J","K","L","M",
          "N","O","P","Q","R","S","T","U","V","W","X","Y","Z"}
Lower == {"a","b","c","d","e","f","g","h","i","j","k","l","m",
          "n","o","p","q","r","s","t","u","v","w","x","y","z"}
Digit == {"0","1","2","3","4","5","6","7","8","9"}
AlNum == Upper \cup Lower \cup Digit
AtoD  == {"A","B","C","D","a","b","c","d"}
Space == {" ", NL}

\* Python None for a filename (a value no line text can equal) and for
\* correct_index.
None == <<"None">>
NoIndex == 0 - 1

\* ------------------------------------------------------- string helpers
RECURSIVE lstrip(_, _)
lstrip(s, cs) ==
    IF s # <<>> /\ Head(s) \in cs THEN lstrip(Tail(s), cs) ELSE s

RECURSIVE rstrip(_, _)
rstrip(s, cs) ==
    IF s # <<>> /\ s[Len(s)] \in cs THEN rstrip(SubSeq(s, 1, Len(s) - 1), cs)
    ELSE s

\* str.strip(): leading and trailing whitespace removed
strip(s) == rstrip(lstrip(s, Space), Space)

\* str.strip('-')
strip_dash(s) == rstrip(lstrip(s, {"-"}), {"-"})

startswith(s, p) == Len(s) >= Len(p) /\ SubSeq(s, 1, Len(p)) = p
endswith(s, p) ==
    Len(s) >= Len(p) /\ SubSeq(s, Len(s) - Len(p) + 1, Len(s)) = p

Contains(s, c) == \E k \in 1..Len(s) : s[k] = c

\* "\n".join(ls)
RECURSIVE join(_)
join(ls) ==
    IF ls = <<>> THEN <<>>
    ELSE IF Len(ls) = 1 THEN ls[1]
    ELSE ls[1] \o <<NL>> \o join(Tail(ls))

\* the inverse view used by the properties: a text cut at its newlines
RECURSIVE splitlines(_)
splitlines(s) ==
    IF ~Contains(s, NL) THEN <<s>>
    ELSE LET k == CHOOSE j \in 1..Len(s) :
                      s[j] = NL /\ \A m \in 1..(j - 1) : s[m] # NL
         IN <<SubSeq(s, 1, k - 1)>> \o splitlines(SubSeq(s, k + 1, Len(s)))

\* re.match(r'^[\(\[]?[A-Za-z0-9][\)\]].*|^[A-Da-d]\..*', s)
option_match(s) ==
    \/ Len(s) >= 3 /\ s[1] \in {"(", "["} /\ s[2] \in AlNum
                   /\ s[3] \in {")", "]"}
    \/ Len(s) >= 2 /\ s[1] \in AlNum /\ s[2] \in {")", "]"}
    \/ Len(s) >= 2 /\ s[1] \in AtoD /\ s[2] = "."

\* option_line.split(')', 1)[-1].strip()
option_text(option_line) ==
    IF Contains(option_line, ")")
    THEN LET k == CHOOSE j \in 1..Len(option_line) :
                      option_line[j] = ")"
                      /\ \A m \in 1..(j - 1) : option_line[m] # ")"
         IN strip(SubSeq(option_line, k + 1, Len(option_line)))
    ELSE strip(option_line)

\* re.sub(r'^(Q\.?\d+\.?|\d+\.?|\d+\))\s*', '', s): the pattern is anchored
\* at the start of the string (no MULTILINE), so at most one prefix goes.
\* The alternative \d+\) is never taken: \d+\.? matches first and the
\* trailing \s* cannot fail.
strip_question_number_q_only(s) ==
    IF s # <<>> /\ Head(s) = "Q"
       /\ Tail(s) # <<>> /\ Head(Tail(s)) \in Digit \cup {"."}
    THEN lstrip(lstrip(Tail(s), Digit \cup {"."}), Space)
    ELSE s

opt_dot(s) == IF s # <<>> /\ Head(s) = "." THEN Tail(s) ELSE s
after_number(s) == lstrip(opt_dot(lstrip(s, Digit)), Space)
strip_question_number(s) ==
    IF s # <<>> /\ Head(s) \in Digit THEN after_number(s)
    ELSE IF s # <<>> /\ Head(s) = "Q"
            /\ opt_dot(Tail(s)) # <<>> /\ Head(opt_dot(Tail(s))) \in Digit
         THEN after_number(opt_dot(Tail(s)))
    ELSE s

\* ------------------------------------------------------------ the input
\* Lines a request text may contain, as received (before trimming).
BlankLine  == <<" ">>
NumProse   == <<"1", ".", "q", " ">>
PlainProse == <<"q">>
SumProse   == <<"1", ".", " ", "2", "+", "2">>
ParenOpt   == <<"(", "A", ")", "x">>
MarkedOpt  == <<"B", ")", "y", "@">>
DotOpt     == <<"A", ".", "z", "@">>
BracketOpt == <<"[", "C", "]", "w">>
NamedDelim == <<"-", "-", "-", "d", "-", "-", "-">>
DashyDelim == <<"-", "-", "-", "-", "e", "-", "-", "-">>
BareDelim  == <<"-", "-", "-">>
LinePool == {BlankLine, NumProse, PlainProse, SumProse, ParenOpt, MarkedOpt, DotOpt,
             BracketOpt, NamedDelim, DashyDelim, BareDelim}

RECURSIVE SeqsUpTo(_, _)
SeqsUpTo(S, n) ==
    IF n = 0 THEN {<<>>}
    ELSE LET prev == SeqsUpTo(S, n - 1)
         IN prev \cup {Append(s, x) : s \in {t \in prev : Len(t) = n - 1},
                                      x \in S}

\* request.form['template_size']: the templates of the model hold
\* 0..MaxSlots tables; InvalidSize is a size get_template_path does not know.
InvalidSize == 0 - 1
TemplateSizes == 0..MaxSlots

\* get_template_path: the template of the selected size, or None
get_template_path(size) == IF size \in TemplateSizes THEN size ELSE NoIndex

VARIABLES
    pc,                 \* position in index()
    lines,              \* text_content.split('\n')
    template_size,      \* request.form['template_size']
    line_pos,           \* split_text_by_pattern: lines already scanned
    results, current_chunk, current_filename,
    file_chunks,        \* index(): result of the split
    i,                  \* index(): enumerate counter (0-based)
    file_names,         \* index(): names of the documents saved so far
    saved,              \* static/: the documents written by doc.save
    response,           \* what index() returned
    chunk,              \* convert_text_to_word: the lines argument
    chunk_pos,          \* preprocess_mcq_lines: lines already scanned
    processed_lines, current_question, in_options,
    table_index, line_index, incorrect_options_lines,
    tables              \* doc.tables[k] as filled in: question, options, answer

splitVars == <<line_pos, results, current_chunk, current_filename>>
prepVars  == <<chunk_pos, processed_lines, current_question, in_options>>
extVars   == <<table_index, line_index, incorrect_options_lines, tables>>
loopVars  == <<file_chunks, i, file_names, saved, response>>
vars == <<pc, lines, template_size, splitVars, loopVars, chunk, prepVars,
          extVars>>

Init ==
    /\ pc = "split"
    /\ lines \in SeqsUpTo(LinePool, MaxLines)
    /\ template_size \in TemplateSizes \cup {InvalidSize}
    /\ line_pos = 0
    /\ results = <<>>
    /\ current_chunk = <<>>
    /\ current_filename = None
    /\ file_chunks = <<>>
    /\ i = 0
    /\ file_names = <<>>
    /\ saved = <<>>
    /\ response = [kind |-> "none", chunk |-> 0, file_names |-> <<>>]
    /\ chunk = <<>>
    /\ chunk_pos = 0
    /\ processed_lines = <<>>
    /\ current_question = <<>>
    /\ in_options = FALSE
    /\ table_index = 0
    /\ line_index = 0
    /\ incorrect_options_lines = <<>>
    /\ tables = <<>>

\* ------------------------------------------------ split_text_by_pattern
is_delimiter_disjoint(stripped_line) ==
    /\ Len(stripped_line) >= 6
    /\ startswith(stripped_line, <<"-", "-", "-">>)
    /\ endswith(stripped_line, <<"-", "-", "-">>)

\* line 20: the delimiter test
is_delimiter(stripped_line) ==
    startswith(stripped_line, <<"-", "-", "-">>)
    /\ endswith(stripped_line, <<"-", "-", "-">>)

SplitDelimiter ==
    /\ pc = "split"
    /\ line_pos < Len(lines)
    /\ LET stripped_line == strip(lines[line_pos + 1]) IN
        /\ is_delimiter(stripped_line)
        /\ results' = IF current_chunk # <<>>
                      THEN Append(results, <<current_filename, current_chunk>>)
                      ELSE results
        /\ current_chunk' = <<>>
        /\ current_filename' = strip_dash(stripped_line)
    /\ line_pos' = line_pos + 1
    /\ UNCHANGED <<pc, lines, template_size, loopVars, chunk, prepVars,
                   extVars>>

SplitContent ==
    /\ pc = "split"
    /\ line_pos < Len(lines)
    /\ LET stripped_line == strip(lines[line_pos + 1]) IN
        /\ ~is_delimiter(stripped_line)
        /\ current_chunk' = Append(current_chunk, stripped_line)
    /\ line_pos' = line_pos + 1
    /\ UNCHANGED <<pc, lines, template_size, results, current_filename,
                   loopVars, chunk, prepVars, extVars>>

SplitReturnNoFlush ==
    /\ pc = "split"
    /\ line_pos = Len(lines)
    /\ file_chunks' = results
    /\ pc' = "template"
    /\ UNCHANGED <<lines, template_size, splitVars, i, file_names, saved,
                   response, chunk, prepVars, extVars>>

SplitReturn ==
    /\ pc = "split"
    /\ line_pos = Len(lines)
    /\ results' = IF current_chunk # <<>>
                  THEN Append(results, <<current_filename, current_chunk>>)
                  ELSE results
    /\ file_chunks' = results'
    /\ pc' = "template"
    /\ UNCHANGED <<lines, template_size, line_pos, current_chunk,
                   current_filename, i, file_names, saved, response, chunk,
                   prepVars, extVars>>

\* ------------------------------------------------------------- index()
\* if not template_file_path: return render_template(..., error=...)
InvalidTemplate ==
    /\ pc = "template"
    /\ get_template_path(template_size) = NoIndex
    /\ response' = [kind |-> "error", chunk |-> 0, file_names |-> <<>>]
    /\ pc' = "done"
    /\ UNCHANGED <<lines, template_size, splitVars, file_chunks, i,
                   file_names, saved, chunk, prepVars, extVars>>

\* file_names = []; the for loop over enumerate(file_chunks) is entered
BeginChunks ==
    /\ pc = "template"
    /\ get_template_path(template_size) # NoIndex
    /\ file_names' = <<>>
    /\ i' = 0
    /\ pc' = "chunk"
    /\ UNCHANGED <<lines, template_size, splitVars, file_chunks, saved,
                   response, chunk, prepVars, extVars>>

\* one more chunk: convert_text_to_word(chunk, template_file_path) is called
\* and opens the template (lines 73-76), then calls preprocess_mcq_lines
\* (lines 41-43)
BeginChunk ==
    /\ pc = "chunk"
    /\ i < Len(file_chunks)
    /\ chunk' = file_chunks[i + 1][2]
    /\ table_index' = 0
    /\ line_index' = 0
    /\ incorrect_options_lines' = <<>>
    /\ tables' = <<>>
    /\ chunk_pos' = 0
    /\ processed_lines' = <<>>
    /\ current_question' = <<>>
    /\ in_options' = FALSE
    /\ pc' = "preprocess"
    /\ UNCHANGED <<lines, template_size, splitVars, loopVars>>

\* the loop is over: return render_template('result.html', file_names=...)
RenderResult ==
    /\ pc = "chunk"
    /\ i = Len(file_chunks)
    /\ response' = [kind |-> "result", chunk |-> 0, file_names |-> file_names]
    /\ pc' = "done"
    /\ UNCHANGED <<lines, template_size, splitVars, file_chunks, i,
                   file_names, saved, chunk, prepVars, extVars>>

\* ------------------------------------------------- preprocess_mcq_lines
PreprocessBlank ==
    /\ pc = "preprocess"
    /\ chunk_pos < Len(chunk)
    /\ strip(chunk[chunk_pos + 1]) = <<>>
    /\ chunk_pos' = chunk_pos + 1
    /\ UNCHANGED <<pc, lines, template_size, splitVars, loopVars, chunk,
                   processed_lines, current_question, in_options, extVars>>

flush_question_eager(question, inopt) == ~inopt

\* the flush test of line 54
flush_question(question, inopt) == question # <<>> /\ ~inopt

PreprocessOption ==
    /\ pc = "preprocess"
    /\ chunk_pos < Len(chunk)
    /\ LET stripped_line == strip(chunk[chunk_pos + 1]) IN
        /\ stripped_line # <<>>
        /\ option_match(stripped_line)
        /\ IF flush_question(current_question, in_options)
           THEN /\ processed_lines' =
                       Append(Append(processed_lines,
                                     strip(join(current_question))),
                              stripped_line)
                /\ current_question' = <<>>
           ELSE /\ processed_lines' = Append(processed_lines, stripped_line)
                /\ UNCHANGED current_question
    /\ in_options' = TRUE
    /\ chunk_pos' = chunk_pos + 1
    /\ UNCHANGED <<pc, lines, template_size, splitVars, loopVars, chunk,
                   extVars>>

PreprocessProseKeepsFlag ==
    /\ pc = "preprocess"
    /\ chunk_pos < Len(chunk)
    /\ LET stripped_line == strip(chunk[chunk_pos + 1]) IN
        /\ stripped_line # <<>>
        /\ ~option_match(stripped_line)
        /\ current_question' = Append(current_question, stripped_line)
    /\ chunk_pos' = chunk_pos + 1
    /\ UNCHANGED <<pc, lines, template_size, splitVars, loopVars, chunk,
                   processed_lines, in_options, extVars>>

PreprocessProse ==
    /\ pc = "preprocess"
    /\ chunk_pos < Len(chunk)
    /\ LET stripped_line == strip(chunk[chunk_pos + 1]) IN
        /\ stripped_line # <<>>
        /\ ~option_match(stripped_line)
        /\ current_question' = Append(current_question, stripped_line)
    /\ in_options' = FALSE
    /\ chunk_pos' = chunk_pos + 1
    /\ UNCHANGED <<pc, lines, template_size, splitVars, loopVars, chunk,
                   processed_lines, extVars>>

PreprocessReturnNoFlush ==
    /\ pc = "preprocess"
    /\ chunk_pos = Len(chunk)
    /\ pc' = "extract"
    /\ UNCHANGED <<lines, template_size, splitVars, loopVars, chunk,
                   prepVars, extVars>>

\* end of the loop: the last question is flushed, the result is bound to
\* `lines` of convert_text_to_word (line 78)
PreprocessReturn ==
    /\ pc = "preprocess"
    /\ chunk_pos = Len(chunk)
    /\ processed_lines' = IF current_question # <<>>
                          THEN Append(processed_lines,
                                      strip(join(current_question)))
                          ELSE processed_lines
    /\ pc' = "extract"
    /\ UNCHANGED <<lines, template_size, splitVars, loopVars, chunk,
                   chunk_pos, current_question, in_options, extVars>>

\* ------------------------------------------------- convert_text_to_word
\* while line_index < len(lines) and not lines[line_index].strip()
RECURSIVE skip_empty(_, _)
skip_empty(ls, idx) ==
    IF idx < Len(ls) /\ strip(ls[idx + 1]) = <<>>
    THEN skip_empty(ls, idx + 1) ELSE idx

rematch_labels_a_to_d(s) ==
    \/ Len(s) >= 3 /\ s[1] \in {"(", "["} /\ s[2] \in AtoD
                   /\ s[3] \in {")", "]"}
    \/ Len(s) >= 2 /\ s[1] \in AtoD /\ s[2] \in {")", "]"}

\* lines 90 and 105: the extractor's own copy of the option pattern
rematch(s) == option_match(s)

\* lines 89-94: the question lines, each with its number removed
RECURSIVE collect_question(_, _, _)
collect_question(ls, idx, question_lines) ==
    IF idx < Len(ls) /\ strip(ls[idx + 1]) # <<>> /\ ~rematch(ls[idx + 1])
    THEN collect_question(ls, idx + 1,
             Append(question_lines, strip_question_number(strip(ls[idx + 1]))))
    ELSE [line_index |-> idx, question_lines |-> question_lines]

mark_index_first(option_line, options, correct_index) ==
    IF Contains(option_line, "@") /\ correct_index = NoIndex
    THEN Len(options) - 1 ELSE correct_index

mark_index_past(option_line, options, correct_index) ==
    IF Contains(option_line, "@") THEN Len(options) ELSE correct_index

\* line 109-110: the index an option line sets when it carries the marker
\* (options already holds the option of this line)
mark_index(option_line, options, correct_index) ==
    IF Contains(option_line, "@") THEN Len(options) - 1 ELSE correct_index

collect_options_single(ls, idx, options, correct_index) ==
    IF idx < Len(ls) /\ strip(ls[idx + 1]) # <<>> /\ option_match(ls[idx + 1])
    THEN LET option_line == strip(ls[idx + 1])
             opts == Append(options, option_text(option_line))
         IN [line_index |-> idx + 1, options |-> opts,
             correct_index |-> mark_index(option_line, opts, correct_index)]
    ELSE [line_index |-> idx, options |-> options,
          correct_index |-> correct_index]

collect_options_stuck(ls, idx, options, correct_index) ==
    [line_index |-> idx, options |-> options, correct_index |-> correct_index]

RECURSIVE collect_options_reversed(_, _, _, _)
collect_options_reversed(ls, idx, options, correct_index) ==
    IF idx < Len(ls) /\ strip(ls[idx + 1]) # <<>> /\ option_match(ls[idx + 1])
    THEN LET option_line == strip(ls[idx + 1])
             opts == <<option_text(option_line)>> \o options
         IN collect_options_reversed(ls, idx + 1, opts,
                mark_index(option_line, opts, correct_index))
    ELSE [line_index |-> idx, options |-> options,
          correct_index |-> correct_index]

\* lines 103-111: the options and the correct answer
RECURSIVE collect_options(_, _, _, _)
collect_options(ls, idx, options, correct_index) ==
    IF idx < Len(ls) /\ strip(ls[idx + 1]) # <<>> /\ rematch(ls[idx + 1])
    THEN LET option_line == strip(ls[idx + 1])
             opts == Append(options, option_text(option_line))
         IN collect_options(ls, idx + 1, opts,
                            mark_index(option_line, opts, correct_index))
    ELSE [line_index |-> idx, options |-> options,
          correct_index |-> correct_index]

unresolved_line_end(idx, options) == idx

\* line 115: the value recorded for a group without a marked option
unresolved_line(idx, options) == idx - Len(options)

more_blocks_short(tidx, lidx, ls) ==
    tidx + 1 < get_template_path(template_size) /\ lidx < Len(ls)

\* the loop test of line 83
more_blocks(tidx, lidx, ls) ==
    tidx < get_template_path(template_size) /\ lidx < Len(ls)

ExtractBlockStopsAtUnresolved ==
    /\ pc = "extract"
    /\ more_blocks(table_index, line_index, processed_lines)
    /\ LET q == collect_question(processed_lines,
                                 skip_empty(processed_lines, line_index), <<>>)
           question == strip(join(q.question_lines))
           o == collect_options(processed_lines,
                                skip_empty(processed_lines, q.line_index),
                                <<>>, NoIndex)
       IN /\ line_index' = IF o.correct_index = NoIndex
                           THEN Len(processed_lines) ELSE o.line_index
          /\ incorrect_options_lines' =
                 IF o.correct_index = NoIndex
                 THEN Append(incorrect_options_lines,
                             unresolved_line(o.line_index, o.options))
                 ELSE incorrect_options_lines
          /\ tables' = Append(tables,
                 [question |-> question, options |-> o.options,
                  correct_index |-> o.correct_index,
                  first |-> line_index])
    /\ table_index' = table_index + 1
    /\ UNCHANGED <<pc, lines, template_size, splitVars, loopVars, chunk,
                   prepVars>>

\* one iteration of the outer loop (lines 83-144): one table is filled.
\* A table keeps the question, the options list and correct_index of the
\* iteration; `first` remembers the value of line_index when it began.
ExtractBlock ==
    /\ pc = "extract"
    /\ more_blocks(table_index, line_index, processed_lines)
    /\ LET q == collect_question(processed_lines,
                                 skip_empty(processed_lines, line_index), <<>>)
           question == strip(join(q.question_lines))
           o == collect_options(processed_lines,
                                skip_empty(processed_lines, q.line_index),
                                <<>>, NoIndex)
       IN /\ line_index' = o.line_index
          /\ incorrect_options_lines' =
                 IF o.correct_index = NoIndex
                 THEN Append(incorrect_options_lines,
                             unresolved_line(o.line_index, o.options))
                 ELSE incorrect_options_lines
          /\ tables' = Append(tables,
                 [question |-> question, options |-> o.options,
                  correct_index |-> o.correct_index,
                  first |-> line_index])
    /\ table_index' = table_index + 1
    /\ UNCHANGED <<pc, lines, template_size, splitVars, loopVars, chunk,
                   prepVars>>

\* the loop test fails: return doc, incorrect_options_lines
ExtractReturn ==
    /\ pc = "extract"
    /\ ~more_blocks(table_index, line_index, processed_lines)
    /\ pc' = "save"
    /\ UNCHANGED <<lines, template_size, splitVars, loopVars, chunk,
                   prepVars, extVars>>

\* f"{filename or f'output_{i + 1}'}.docx"
output_file_name(filename, k) ==
    IF filename = None \/ filename = <<>>
    THEN <<"output_", ToString(k + 1), ".docx">>
    ELSE filename \o <<".docx">>

\* lines 175-178: doc.save succeeds
SaveChunk ==
    /\ pc = "save"
    /\ LET name == output_file_name(file_chunks[i + 1][1], i) IN
        /\ saved' = Append(saved, [index |-> i + 1,
                        name |-> name, tables |-> tables,
                        incorrect_options_lines |-> incorrect_options_lines])
        /\ file_names' = Append(file_names, name)
    /\ i' = i + 1
    /\ pc' = "chunk"
    /\ UNCHANGED <<lines, template_size, splitVars, file_chunks, response,
                   chunk, prepVars, extVars>>

ChunkRaisesOffByOne ==
    /\ pc = "save"
    /\ response' = [kind |-> "error", chunk |-> i, file_names |-> <<>>]
    /\ pc' = "done"
    /\ UNCHANGED <<lines, template_size, splitVars, file_chunks, i,
                   file_names, saved, chunk, prepVars, extVars>>

\* lines 179-180: the try body raised (the template cannot be opened or
\* filled, the document cannot be written): index() returns at once
ChunkRaises ==
    /\ pc = "save"
    /\ response' = [kind |-> "error", chunk |-> i + 1, file_names |-> <<>>]
    /\ pc' = "done"
    /\ UNCHANGED <<lines, template_size, splitVars, file_chunks, i,
                   file_names, saved, chunk, prepVars, extVars>>

Next ==
    \/ SplitDelimiter
    \/ SplitContent
    \/ SplitReturn
    \/ InvalidTemplate
    \/ BeginChunks
    \/ BeginChunk
    \/ RenderResult
    \/ PreprocessBlank
    \/ PreprocessOption
    \/ PreprocessProse
    \/ PreprocessReturn
    \/ ExtractBlock
    \/ ExtractReturn
    \/ SaveChunk
    \/ ChunkRaises

Spec == Init /\ [][Next]_vars

\* ========================================================== properties
\* The grouped sequence position just after table k's block, and the option
\* lines of its group, read back from the grouped sequence.
RecEnd(k) == IF k < Len(tables) THEN tables[k + 1].first ELSE line_index
GroupLines(k) ==
    SubSeq(processed_lines, RecEnd(k) - Len(tables[k].options) + 1, RecEnd(k))
Marked(k) == {j \in 1..Len(GroupLines(k)) : Contains(GroupLines(k)[j], "@")}
SetMin(S) == CHOOSE x \in S : \A y \in S : x <= y
SetMax(S) == CHOOSE x \in S : \A y \in S : x >= y

\* C1 (as claimed): in every group with two or more marked option lines the
\* correct index is the position of the FIRST marked line.
C1_FirstMarkedWins ==
    \A k \in 1..Len(tables) :
        Cardinality(Marked(k)) >= 2
            => tables[k].correct_index = SetMin(Marked(k)) - 1

\* C1 (amended): in every group with two or more marked option lines the
\* correct index is the position of the LAST marked line of the group.
C1_LastMarkedWins ==
    \A k \in 1..Len(tables) :
        Cardinality(Marked(k)) >= 2
            => tables[k].correct_index = SetMax(Marked(k)) - 1

C1_Witness ==
    \E k \in 1..Len(tables) :
        /\ Cardinality(Marked(k)) >= 2
        /\ tables[k].correct_index = 1

\* C2 (as claimed): when chunk i raised, every sibling chunk has still been
\* converted and saved.
C2_SiblingsProcessed ==
    (pc = "done" /\ response.kind = "error" /\ response.chunk >= 1)
        => \A j \in 1..Len(file_chunks) :
               j # response.chunk => \E d \in 1..Len(saved) : saved[d].index = j

\* C2 (amended): when chunk i raises, index() returns at once with an error
\* that names chunk i: exactly the chunks before i have been converted and
\* saved, no chunk after i is processed, and the response lists no file.
C2_AbortAtFailedChunk ==
    (pc = "done" /\ response.kind = "error" /\ response.chunk >= 1)
        => /\ response.chunk = i + 1
           /\ response.chunk <= Len(file_chunks)
           /\ Len(saved) = response.chunk - 1
           /\ \A d \in 1..Len(saved) : saved[d].index = d
           /\ response.file_names = <<>>

C2_Witness ==
    /\ pc = "done"
    /\ response.kind = "error"
    /\ response.chunk = 1
    /\ Len(file_chunks) >= 2
    /\ saved = <<>>

\* The non-blank lines of the chunk by their 0-based index in the chunk, and
\* the index in the chunk of the first line of table k's block.
RECURSIVE NonBlankIdx(_, _)
NonBlankIdx(ls, from) ==
    IF from >= Len(ls) THEN <<>>
    ELSE IF strip(ls[from + 1]) = <<>> THEN NonBlankIdx(ls, from + 1)
    ELSE <<from>> \o NonBlankIdx(ls, from + 1)

RECURSIVE LinesIn(_, _)
LinesIn(segs, n) ==
    IF n = 0 THEN 0
    ELSE Len(splitlines(segs[n])) + LinesIn(segs, n - 1)

OrigStart(k) ==
    NonBlankIdx(chunk, 0)[LinesIn(processed_lines, tables[k].first) + 1]

RECURSIVE UnresolvedTables(_)
UnresolvedTables(n) ==
    IF n = 0 THEN <<>>
    ELSE IF tables[n].correct_index = NoIndex
         THEN Append(UnresolvedTables(n - 1), n)
         ELSE UnresolvedTables(n - 1)

\* 1 when table k's block begins with a prose segment, else 0
StemSegs(k) ==
    IF ~option_match(processed_lines[tables[k].first + 1]) THEN 1 ELSE 0

\* C3 (as claimed): the value recorded for a table without a marked option
\* is the index, in the lines given to convert_text_to_word, of the first
\* line of the block (the first line of its stem).
C3_OriginalStartIndex ==
    LET u == UnresolvedTables(Len(tables)) IN
    \A r \in 1..Len(u) :
        r <= Len(incorrect_options_lines)
            => incorrect_options_lines[r] = OrigStart(u[r])

\* C3 (amended): the value recorded for a table without a marked option is
\* the 0-based position, in the GROUPED sequence, of the segment that follows
\* the block's stem: its first option segment, or the end of the block when
\* it has no options.
C3_GroupedOptionIndex ==
    LET u == UnresolvedTables(Len(tables)) IN
    /\ Len(u) = Len(incorrect_options_lines)
    /\ \A r \in 1..Len(u) :
           incorrect_options_lines[r] = tables[u[r]].first + StemSegs(u[r])

C3_Witness ==
    \E k \in 1..Len(tables) :
        /\ tables[k].correct_index = NoIndex
        /\ StemSegs(k) = 1
        /\ Len(splitlines(processed_lines[tables[k].first + 1])) = 2
        /\ Len(tables[k].options) = 1
        /\ incorrect_options_lines = <<1>>
        /\ OrigStart(k) = 0

\* The text after the first closing bracket, closing paren or period of an
\* option line, trimmed; the whole trimmed line when it has none of them.
AfterMarker(option_line) ==
    LET D == {j \in 1..Len(option_line) : option_line[j] \in {")", "]", "."}}
    IN IF D = {} THEN strip(option_line)
       ELSE strip(SubSeq(option_line, SetMin(D) + 1, Len(option_line)))

\* C4 (as claimed; the code departs from it): every emitted option text is
\* what follows the first closing bracket/paren or period of its line.
C4_TextAfterMarker ==
    \A k \in 1..Len(tables) :
        \A j \in 1..Len(tables[k].options) :
            tables[k].options[j] = AfterMarker(GroupLines(k)[j])

RECURSIVE StripEach(_)
StripEach(ls) ==
    IF ls = <<>> THEN <<>>
    ELSE <<strip_question_number(Head(ls))>> \o StripEach(Tail(ls))

\* The prose lines of table k's stem, as the grouper joined them.
StemLines(k) ==
    IF StemSegs(k) = 1 THEN splitlines(processed_lines[tables[k].first + 1])
    ELSE <<>>

\* C5 (as claimed; the code departs from it): every line of a multi-line
\* stem has lost its leading question number in the emitted stem.
C5_EveryStemLineStripped ==
    \A k \in 1..Len(tables) :
        tables[k].question = strip(join(StripEach(StemLines(k))))

\* The question blocks of a grouped sequence, by the position of their first
\* segment: a prose run opens a block, and so does a leading option line.
BlockStarts(ls) == {m \in 1..Len(ls) : m = 1 \/ ~option_match(ls[m])}

RECURSIVE SortedSeq(_)
SortedSeq(S) ==
    IF S = {} THEN <<>>
    ELSE <<SetMin(S)>> \o SortedSeq(S \ {SetMin(S)})

Min(a, b) == IF a <= b THEN a ELSE b
Slots == get_template_path(template_size)

\* C6: the extractor never fills more tables than the template has, fills
\* the blocks in order without skipping one, and when it returns it has
\* filled exactly min(S, B) tables, B the number of blocks of the grouped
\* sequence.
C6_RecordCount ==
    LET starts == SortedSeq(BlockStarts(processed_lines)) IN
    pc \in {"extract", "save"} =>
        /\ Len(tables) = table_index
        /\ Len(tables) <= Min(Slots, Len(starts))
        /\ \A k \in 1..Len(tables) : tables[k].first + 1 = starts[k]
        /\ pc = "save" => Len(tables) = Min(Slots, Len(starts))

C6_Witness ==
    /\ pc = "save"
    /\ Cardinality(BlockStarts(processed_lines)) = 2
    /\ Slots = 1
    /\ Len(tables) = 1
    /\ line_index < Len(processed_lines)

\* C7: the correct index of every table is either absent or a valid index
\* into its options whose option line carries the marker, and it is present
\* exactly when some option line of the group carries the marker.
C7_CorrectIndexValid ==
    \A k \in 1..Len(tables) :
        LET ci == tables[k].correct_index IN
        /\ ci = NoIndex
             \/ /\ 0 <= ci
                /\ ci < Len(tables[k].options)
                /\ Contains(GroupLines(k)[ci + 1], "@")
        /\ ci # NoIndex <=> Marked(k) # {}

C7_Witness ==
    \E k \in 1..Len(tables) :
        /\ tables[k].correct_index = 1
        /\ Len(tables[k].options) = 2
        /\ Marked(k) = {2}

\* The trimmed non-blank lines of a line sequence, in order.
RECURSIVE TrimmedNonBlank(_)
TrimmedNonBlank(ls) ==
    IF ls = <<>> THEN <<>>
    ELSE IF strip(Head(ls)) = <<>> THEN TrimmedNonBlank(Tail(ls))
    ELSE <<strip(Head(ls))>> \o TrimmedNonBlank(Tail(ls))

\* The segments of a grouped sequence cut back into their lines.
RECURSIVE Flatten(_)
Flatten(segs) ==
    IF segs = <<>> THEN <<>>
    ELSE splitlines(Head(segs)) \o Flatten(Tail(segs))

IsProseRun(seg) ==
    \A j \in 1..Len(splitlines(seg)) : ~option_match(splitlines(seg)[j])
IsOptionLine(seg) == Len(splitlines(seg)) = 1 /\ option_match(seg)

\* C8: when preprocess_mcq_lines returns, its segments cut back into lines
\* are exactly the trimmed non-blank input lines in input order; every
\* segment is one option line or a run of prose lines only, and no two prose
\* runs are adjacent (each run is maximal).
C8_GroupingLossless ==
    pc = "extract" =>
        /\ Flatten(processed_lines) = TrimmedNonBlank(chunk)
        /\ \A m \in 1..Len(processed_lines) :
               IsOptionLine(processed_lines[m]) \/ IsProseRun(processed_lines[m])
        /\ \A m \in 1..(Len(processed_lines) - 1) :
               ~(IsProseRun(processed_lines[m])
                 /\ IsProseRun(processed_lines[m + 1]))

C8_Witness ==
    /\ pc = "extract"
    /\ Len(chunk) = 3
    /\ Len(processed_lines) = 2
    /\ IsOptionLine(processed_lines[1])
    /\ Len(splitlines(processed_lines[2])) = 2

\* The delimiter lines of the request and, for a content line, the position
\* of the nearest delimiter before it (0 when there is none).
DelimPos == {p \in 1..Len(lines) : is_delimiter(strip(lines[p]))}
ContentPos == (1..Len(lines)) \ DelimPos
Owner(p) ==
    IF \E d \in DelimPos : d < p
    THEN SetMax({d \in DelimPos : d < p}) ELSE 0
OwnerName(d) == IF d = 0 THEN None ELSE strip_dash(strip(lines[d]))

RECURSIVE TrimAll(_)
TrimAll(ps) ==
    IF ps = <<>> THEN <<>>
    ELSE <<strip(lines[Head(ps)])>> \o TrimAll(Tail(ps))

RECURSIVE ChunkLines(_)
ChunkLines(cs) ==
    IF cs = <<>> THEN <<>> ELSE Head(cs)[2] \o ChunkLines(Tail(cs))

\* C9: when split_text_by_pattern returns there is one chunk for each
\* delimiter (or the start of the text) that is followed by content before
\* the next delimiter, in input order; the chunk holds exactly those content
\* lines and carries that delimiter's name (None before the first one); no
\* chunk is empty, and the chunks together are all the content lines.
C9_ChunksPartitionContent ==
    LET owners == SortedSeq({Owner(p) : p \in ContentPos}) IN
    pc # "split" =>
        /\ Len(file_chunks) = Len(owners)
        /\ \A k \in 1..Len(file_chunks) :
               /\ file_chunks[k][1] = OwnerName(owners[k])
               /\ file_chunks[k][2] # <<>>
               /\ file_chunks[k][2] =
                      TrimAll(SortedSeq({p \in ContentPos : Owner(p) = owners[k]}))
        /\ ChunkLines(file_chunks) = TrimAll(SortedSeq(ContentPos))

C9_Witness ==
    /\ pc = "template"
    /\ Len(lines) = 3
    /\ Len(file_chunks) = 2
    /\ file_chunks[1][1] = None
    /\ file_chunks[2][1] = <<"d">>
    /\ ~is_delimiter(strip(lines[3]))

\* A line matching ^---.*---$ and the text between its dashes.
MatchesDelimiterRegex(s) ==
    /\ Len(s) >= 6
    /\ \A k \in 1..3 : s[k] = "-" /\ s[Len(s) - k + 1] = "-"
BetweenDashes(s) == SubSeq(s, 4, Len(s) - 3)

\* A line whose first three and last three characters are dashes, the two
\* triples possibly overlapping, and the line without the dashes at its ends.
DashEnded(s) ==
    /\ Len(s) >= 3
    /\ \A k \in 1..3 : s[k] = "-" /\ s[Len(s) - k + 1] = "-"
DashFreeCore(s) ==
    LET inner == {k \in 1..Len(s) : s[k] # "-"}
    IN IF inner = {} THEN <<>> ELSE SubSeq(s, SetMin(inner), SetMax(inner))

\* the line split_text_by_pattern is about to scan
ScannedLine == strip(lines[line_pos + 1])

\* C10 (as claimed): a line is treated as a delimiter exactly when it
\* matches ^---.*---$, and the chunk name is the text between the leading
\* and the trailing three dashes.
C10_DelimiterIsRegex ==
    [][/\ SplitDelimiter =>
            /\ MatchesDelimiterRegex(ScannedLine)
            /\ current_filename' = BetweenDashes(ScannedLine)
       /\ SplitContent => ~MatchesDelimiterRegex(ScannedLine)]_vars

\* C10 (amended): a trimmed line is treated as a delimiter exactly when it
\* starts with '---' and ends with '---', where the two may overlap, so a
\* line of three, four or five dashes is a delimiter too; the chunk name is
\* the line with ALL its leading and trailing dashes removed.
C10_DelimiterIsDashEnded ==
    [][/\ SplitDelimiter =>
            /\ DashEnded(ScannedLine)
            /\ current_filename' = DashFreeCore(ScannedLine)
       /\ SplitContent => ~DashEnded(ScannedLine)]_vars

C10_Witness ==
    /\ pc = "split"
    /\ line_pos = 2
    /\ lines[1] = BareDelim
    /\ lines[2] = DashyDelim
    /\ results = <<>>
    /\ current_chunk = <<>>
    /\ current_filename = <<"e">>

\* A text that begins with a numbering decoration: a digit, or Q followed by
\* a digit or by a period and a digit.
BeginsWithNumber(s) ==
    \/ Len(s) >= 1 /\ s[1] \in Digit
    \/ Len(s) >= 2 /\ s[1] = "Q" /\ s[2] \in Digit
    \/ Len(s) >= 3 /\ s[1] = "Q" /\ s[2] = "." /\ s[3] \in Digit

\* C11 (as claimed): applying the question-number stripper again to the stem
\* of any table returns it unchanged.
C11_StripperIdempotent ==
    \A k \in 1..Len(tables) :
        strip_question_number(tables[k].question) = tables[k].question

\* C11 (amended): the stripper removes ONE leading numbering decoration per
\* application.  Applied again to an emitted stem it is a no-op exactly when
\* the stem does not itself begin with a number (a digit, Q1, Q.1); when it
\* does, as in '1. 2+2' emitted as '2+2', the second pass removes that
\* number too and returns a strictly shorter text.
C11_StripsOncePerPass ==
    \A k \in 1..Len(tables) :
        LET s == tables[k].question IN
        IF BeginsWithNumber(s)
        THEN Len(strip_question_number(s)) < Len(s)
        ELSE strip_question_number(s) = s

C11_Witness ==
    \E k \in 1..Len(tables) :
        /\ processed_lines[tables[k].first + 1] = SumProse
        /\ tables[k].question = <<"2", "+", "2">>
        /\ strip_question_number(tables[k].question) = <<"+", "2">>

\* C12: the tables cover the consumed segments of the grouped sequence in
\* order, without gap or overlap: the first table starts at segment 0, each
\* table takes its prose run (if any) as its stem and the option segments
\* that follow as its options, in input order, and the next table starts
\* where it ends; so every consumed prose line and option line is in exactly
\* one table, once.
C12_OrderedAndLossless ==
    /\ Len(tables) >= 1 => tables[1].first = 0
    /\ \A k \in 1..Len(tables) :
           LET a == tables[k].first
               n == StemSegs(k)
           IN /\ RecEnd(k) - a = n + Len(tables[k].options)
              /\ RecEnd(k) <= Len(processed_lines)
              /\ tables[k].question =
                     IF n = 1
                     THEN strip(strip_question_number(processed_lines[a + 1]))
                     ELSE <<>>
              /\ \A j \in 1..Len(tables[k].options) :
                     /\ IsOptionLine(processed_lines[a + n + j])
                     /\ tables[k].options[j] =
                            option_text(processed_lines[a + n + j])

C12_Witness ==
    /\ Len(tables) = 2
    /\ StemSegs(1) = 1
    /\ tables[1].options = <<<<"x">>>>
    /\ tables[2].first = 2
    /\ tables[2].question = <<"q">>
    /\ line_index = 3

\* C13: a chunk of option lines only, given at least one table, is grouped
\* unchanged and yields exactly one table, with the empty stem and one
\* option for every line, in order.
C13_OptionsOnlyInput ==
    (/\ pc = "save"
     /\ chunk # <<>>
     /\ \A j \in 1..Len(chunk) : option_match(strip(chunk[j]))
     /\ Slots >= 1)
        => /\ processed_lines = TrimmedNonBlank(chunk)
           /\ Len(tables) = 1
           /\ tables[1].question = <<>>
           /\ Len(tables[1].options) = Len(chunk)
           /\ \A j \in 1..Len(chunk) :
                  LET t == tables[1].options[j] IN
                  /\ Len(t) <= Len(strip(chunk[j]))
                  /\ SubSeq(strip(chunk[j]),
                            Len(strip(chunk[j])) - Len(t) + 1,
                            Len(strip(chunk[j]))) = t
           /\ line_index = Len(chunk)

C13_Witness ==
    /\ pc = "save"
    /\ chunk = <<ParenOpt, DotOpt, BracketOpt>>
    /\ Len(tables) = 1
    /\ tables[1].question = <<>>
    /\ Len(tables[1].options) = 3
    /\ Slots = 2

\* The longest all-prose suffix of a sequence of lines.
RECURSIVE TrailingProse(_)
TrailingProse(ls) ==
    IF ls = <<>> \/ option_match(ls[Len(ls)]) THEN <<>>
    ELSE Append(TrailingProse(SubSeq(ls, 1, Len(ls) - 1)), ls[Len(ls)])

\* The number of question blocks of a sequence of trimmed non-blank lines:
\* one for each prose line that begins a prose run, and one more when the
\* sequence begins with an option line.
RawBlockCount(ls) ==
    Cardinality({m \in 1..Len(ls) :
                    IF option_match(ls[m]) THEN m = 1
                    ELSE m = 1 \/ option_match(ls[m - 1])})

\* C14: when the chunk ends with a prose run and the template has a table
\* left for it, the last table filled has that run as its stem (number
\* removed), no options and no correct index, and the unresolved list, which
\* has one entry for each table without a correct index, ends with the one
\* entry of that table.
C14_TrailingProseEmitted ==
    LET raw == TrimmedNonBlank(chunk)
        run == TrailingProse(raw)
        n   == Len(tables)
        u   == UnresolvedTables(n)
    IN (pc = "save" /\ run # <<>> /\ Slots >= RawBlockCount(raw))
        => /\ n = RawBlockCount(raw)
           /\ tables[n].question = strip(strip_question_number(join(run)))
           /\ tables[n].options = <<>>
           /\ tables[n].correct_index = NoIndex
           /\ Len(incorrect_options_lines) = Len(u)
           /\ u[Len(u)] = n
           /\ \A r \in 1..(Len(u) - 1) :
                  incorrect_options_lines[r] < incorrect_options_lines[Len(u)]

C14_Witness ==
    /\ pc = "save"
    /\ chunk = <<PlainProse, <<"B", ")", "y", "@">>, <<"1", ".", "q">>>>
    /\ Len(tables) = 2
    /\ tables[2].question = <<"q">>
    /\ tables[2].options = <<>>
    /\ incorrect_options_lines = <<3>>

\* The work left in a call of convert_text_to_word: the lines the grouper
\* has still to scan, then the segments the extractor has still to consume.
Variant ==
    CASE pc = "preprocess" -> (Len(chunk) - chunk_pos) + Len(chunk) + 2
      [] pc = "extract"    -> (Len(processed_lines) - line_index) + 1
      [] OTHER             -> 0

\* C15: the grouper and the extractor terminate without an error state.
\* Every step of either lessens the work left, which stays positive until
\* the extractor returns; the grouper can always scan its next line or
\* return, and each of its steps scans one line; each iteration of the
\* extractor's outer loop fills one table and moves line_index forward by at
\* least one segment, never past the end of the grouped sequence nor past the
\* tables of the template; and a chunk without any non-blank line yields no
\* table and no unresolved index.
C15_Terminates ==
    /\ [](pc \in {"preprocess", "extract"} => Variant > 0)
    /\ [](pc = "preprocess" =>
            /\ chunk_pos <= Len(chunk)
            /\ ENABLED (PreprocessBlank \/ PreprocessOption
                        \/ PreprocessProse \/ PreprocessReturn))
    /\ [](pc = "extract" =>
            /\ line_index <= Len(processed_lines)
            /\ table_index <= Slots)
    /\ [][/\ (pc \in {"preprocess", "extract"}) => (Variant' < Variant)
          /\ (PreprocessBlank \/ PreprocessOption \/ PreprocessProse)
                => (chunk_pos' = chunk_pos + 1)
          /\ ExtractBlock
                => /\ line_index' > line_index
                   /\ line_index' <= Len(processed_lines)
                   /\ table_index' = table_index + 1
                   /\ Len(tables') = Len(tables) + 1]_vars
    /\ []((pc = "save" /\ TrimmedNonBlank(chunk) = <<>>)
            => tables = <<>> /\ incorrect_options_lines = <<>>)

C15_Witness ==
    /\ pc = "save"
    /\ Len(chunk) = 2
    /\ TrimmedNonBlank(chunk) = <<>>
    /\ tables = <<>>
    /\ incorrect_options_lines = <<>>
    /\ Slots = 2

\* The tables whose option group has no marked line, in table order.
RECURSIVE UnmarkedTables(_)
UnmarkedTables(n) ==
    IF n = 0 THEN <<>>
    ELSE IF Marked(n) = {}
         THEN Append(UnmarkedTables(n - 1), n)
         ELSE UnmarkedTables(n - 1)

\* C16: the unresolved list has one entry for each table whose group has no
\* marked option line and none for the others, in table order (the entries
\* grow with the tables they belong to); and a group without a marker does
\* not stop the parse: when the extractor returns it has filled a table for
\* every block of the chunk's lines, as far as the template has tables.
C16_OneEntryPerUnmarked ==
    LET u == UnmarkedTables(Len(tables)) IN
    /\ Len(incorrect_options_lines) = Len(u)
    /\ \A r \in 1..Len(u) :
           /\ tables[u[r]].first <= incorrect_options_lines[r]
           /\ incorrect_options_lines[r] <= RecEnd(u[r])
    /\ \A r \in 1..(Len(u) - 1) :
           incorrect_options_lines[r] < incorrect_options_lines[r + 1]
    /\ pc = "save" =>
           Len(tables) = Min(Slots, RawBlockCount(TrimmedNonBlank(chunk)))

C16_Witness ==
    /\ pc = "save"
    /\ Len(tables) = 2
    /\ Marked(1) = {}
    /\ Marked(2) = {1}
    /\ Len(tables[1].options) = 1
    /\ incorrect_options_lines = <<0>>

\* The lines of the chunk that segment m of the grouped sequence was made
\* of, and how the grouper classified the segment when it wrote it.
SegmentRaw(m) ==
    SubSeq(TrimmedNonBlank(chunk), LinesIn(processed_lines, m - 1) + 1,
           LinesIn(processed_lines, m))
GroupedAsOption(m) ==
    Len(SegmentRaw(m)) = 1 /\ option_match(SegmentRaw(m)[1])
GroupedAsProse(m) ==
    /\ Len(SegmentRaw(m)) >= 1
    /\ \A j \in 1..Len(SegmentRaw(m)) : ~option_match(SegmentRaw(m)[j])

\* The tests of lines 90 and 105 on a segment.
ExtractedAsOption(seg) == strip(seg) # <<>> /\ rematch(seg)
ExtractedAsQuestion(seg) == strip(seg) # <<>> /\ ~rematch(seg)

\* C17: on every segment of the grouped sequence the extractor's tests
\* agree with the grouper: a segment written for an option line is taken as
\* an option, a newline-joined prose run is taken as a question line; so the
\* options of a table are exactly the option segments of its block.
C17_ExtractorAgreesWithGrouper ==
    pc \in {"extract", "save"} =>
        /\ \A m \in 1..Len(processed_lines) :
               /\ GroupedAsOption(m) \/ GroupedAsProse(m)
               /\ GroupedAsOption(m) => ExtractedAsOption(processed_lines[m])
               /\ GroupedAsProse(m) => ExtractedAsQuestion(processed_lines[m])
        /\ \A k \in 1..Len(tables) :
               /\ Len(tables[k].options) =
                      Cardinality({m \in (tables[k].first + 1)..RecEnd(k) :
                                       GroupedAsOption(m)})
               /\ \A m \in (RecEnd(k) - Len(tables[k].options) + 1)..RecEnd(k) :
                      GroupedAsOption(m)

C17_Witness ==
    /\ pc = "save"
    /\ Len(processed_lines) = 2
    /\ Len(SegmentRaw(1)) = 2
    /\ GroupedAsProse(1)
    /\ SegmentRaw(2) = <<DotOpt>>
    /\ Len(tables) = 1
    /\ Len(tables[1].options) = 1

\* C18: in the grouper, in_options is never true while prose lines are
\* waiting in the accumulator; so the flush test of line 54 gives the same
\* answer as 'the accumulator is not empty' alone, and the output never has
\* two prose runs next to each other.
C18_FlagImpliesEmptyAccumulator ==
    /\ in_options => current_question = <<>>
    /\ flush_question(current_question, in_options)
           <=> current_question # <<>>
    /\ \A m \in 1..(Len(processed_lines) - 1) :
           ~(~option_match(processed_lines[m])
             /\ ~option_match(processed_lines[m + 1]))

C18_Witness ==
    /\ pc = "preprocess"
    /\ chunk_pos = 3
    /\ in_options
    /\ current_question = <<>>
    /\ Len(processed_lines) = 2
    /\ Len(splitlines(processed_lines[1])) = 2

\* The prose runs among the segments of table k's block.
ProseSegs(k) ==
    {m \in (tables[k].first + 1)..RecEnd(k) : ~option_match(processed_lines[m])}

\* C19: every table after the first is built from exactly one prose run and
\* the first from at most one, always the first segment of the block; a
\* table without options ends at the end of the grouped sequence; and option
\* lines with no prose line between them are never divided between two
\* tables, so the tables are no more than the prose runs, plus one when the
\* chunk begins with an option line.
C19_BlockShape ==
    pc \in {"extract", "save"} =>
        /\ \A k \in 1..Len(tables) :
               /\ ProseSegs(k) \subseteq {tables[k].first + 1}
               /\ k > 1 => Cardinality(ProseSegs(k)) = 1
               /\ tables[k].options = <<>> =>
                      /\ RecEnd(k) = Len(processed_lines)
                      /\ k = Len(tables)
        /\ Len(tables) <= RawBlockCount(TrimmedNonBlank(chunk))

C19_Witness ==
    /\ pc = "save"
    /\ chunk = <<ParenOpt, <<>>, MarkedOpt>>
    /\ Slots = 2
    /\ Len(tables) = 1
    /\ ProseSegs(1) = {}
    /\ tables[1].options = <<<<"x">>, <<"y", "@">>>>
====
